---- MODULE Spec2Model ----
(***************************************************************************)
(* Model of the ASL recognizer's model selectors (my_model_selectors.py)   *)
(* and of recognize() (my_recognizer.py).                                  *)
(*                                                                         *)
(* The hmmlearn trainer is external: GaussianHMM(...).fit and model.score  *)
(* are modelled as calls whose outcome (a value, a ValueError, or an       *)
(* exception of another class) is chosen nondeterministically at the call. *)
(* Log-likelihoods are integers; the quantities the selectors derive from  *)
(* them (BIC, DIC, fold averages) are exact rationals in lowest terms, so  *)
(* floating-point rounding is outside the model.                           *)
(***************************************************************************)
EXTENDS Integers, Sequences, FiniteSets, TLC

\* ---------------------------------------------------------------- bounds
MaxN      == 3   \* min_n_components, max_n_components, n_constant in 1..MaxN
MaxSeq    == 4   \* training sequences of this_word: 1..MaxSeq
MaxD      == 2   \* feature dimension len(self.X[0]): 1..MaxD
MaxLogL   == 1   \* the trainer's log-likelihoods: -MaxLogL..0
MaxOthers == 2   \* words of the corpus other than this_word: 0..MaxOthers
MaxWords  == 2   \* words of the models mapping given to recognize: 0..MaxWords
MaxItems  == 2   \* test_set.num_items: 0..MaxItems

\* ------------------------------------------------------------- rationals
RECURSIVE GCD(_, _)
GCD(a, b) == IF b = 0 THEN a ELSE GCD(b, a % b)

Abs(x) == IF x < 0 THEN 0 - x ELSE x

\* n/d in lowest terms, d > 0
Rat(n, d) == LET g == GCD(Abs(n), d) IN [num |-> n \div g, den |-> d \div g]

RInt(n) == Rat(n, 1)
RAdd(a, b) == Rat(a.num * b.den + b.num * a.den, a.den * b.den)
RSub(a, b) == Rat(a.num * b.den - b.num * a.den, a.den * b.den)
RDivInt(a, m) == Rat(a.num, a.den * m)
RLess(a, b) == a.num * b.den < b.num * a.den

\* A Python float or None: None, -inf, a finite value, +inf.
NoneV   == [k |-> "None", v |-> RInt(0)]
NegInf  == [k |-> "-inf", v |-> RInt(0)]
PosInf  == [k |-> "inf",  v |-> RInt(0)]
Fin(r)  == [k |-> "val",  v |-> r]

Rank(x) == CASE x.k = "-inf" -> 0 [] x.k = "val" -> 1 [] x.k = "inf" -> 2

\* a < b on floats (neither is None)
FloatLess(a, b) ==
    \/ Rank(a) < Rank(b)
    \/ a.k = "val" /\ b.k = "val" /\ RLess(a.v, b.v)

\* ------------------------------------------------------ the trainer's answers
LogLs == (0 - MaxLogL)..0

Errors == {"ValueError", "OtherError"}

\* what GaussianHMM(n_components=n, ...).fit(X, lengths) does
FitOutcomes == {"ok"} \cup Errors

\* what model.score(X, lengths) does: a finite log-likelihood or an exception
ScoreOutcomes ==
    {[res |-> "ok", logL |-> Fin(RInt(v))] : v \in LogLs}
        \cup {[res |-> e, logL |-> NoneV] : e \in Errors}

\* model.score may also underflow to -inf
ScoreOutcomesInf == ScoreOutcomes \cup {[res |-> "ok", logL |-> NegInf]}

\* A fitted model: its hidden-state count, and for SelectorCV the fold (1-based)
\* whose training subset it was fitted on (0: fitted on the whole word).
Model(n, f) == [n |-> n, fold |-> f]
None == Model(0, 0)

\* lengths lists (frames per sequence) of the other words of the corpus
OtherLengths == {<<1>>, <<1, 2>>}

VARIABLES
    strategy,        \* which ModelSelector subclass / "Recognize"
    min_n, max_n, n_constant,   \* self.min_n_components, self.max_n_components, self.n_constant
    nseq,            \* len(self.lengths)
    D,               \* len(self.X[0])
    others,          \* self.hwords[word][1] for each word != this_word, in keys() order
    pc,              \* position in select() / recognize()
    i,               \* loop variable of the candidate loop / test item index
    hmm_models, best_score, best_i,   \* locals of select()
    logL, sum_logL, num_of_logs, dic, k,       \* SelectorDIC: locals, k indexes others
    fold, folds, num_of_models, cv_best_score, best_model, \* SelectorCV: locals per candidate
    result,          \* what select() returned
    calls,           \* which of split / fit / score select() has called
    hist,            \* per candidate: what the trainer answered (and the BIC computed)
    trace,           \* current candidate: the trainer's answers in the inner loop
    selfL,           \* SelectorDIC: score of the candidate on this word's own data
    models, num_items, probabilities, guesses, lastOuts   \* recognize()

vars == <<strategy, min_n, max_n, n_constant, nseq, D, others, pc, i, hmm_models,
          best_score, best_i, logL, sum_logL, num_of_logs, dic, k, fold, folds,
          num_of_models, cv_best_score, best_model, result, calls, hist, trace,
          selfL, models, num_items, probabilities, guesses, lastOuts>>

config == <<strategy, min_n, max_n, n_constant, nseq, D, others>>
dicLocals == <<logL, sum_logL, num_of_logs, dic, k, selfL>>
cvLocals == <<fold, folds, num_of_models, cv_best_score, best_model>>
recVars == <<models, num_items, probabilities, guesses, lastOuts>>

Empty == [x \in {} |-> None]

\* faulty variant: the upper end of the range taken as inclusive
InRangeInclusive(j, lo, hi) == lo <= j /\ j <= hi

\* range(self.min_n_components, self.max_n_components) yields j
InRange(j, lo, hi) == lo <= j /\ j < hi

\* the state before select() / recognize() runs; the configuration is chosen by Init*
Fresh ==
    /\ pc = "start" /\ i = 0
    /\ hmm_models = Empty /\ best_score = NoneV /\ best_i = 0
    /\ logL = NoneV /\ sum_logL = RInt(0) /\ num_of_logs = 0 /\ dic = NoneV /\ k = 0
    /\ fold = 0 /\ folds = <<>> /\ num_of_models = 0 /\ cv_best_score = NoneV
    /\ best_model = None
    /\ result = None /\ calls = {} /\ hist = Empty /\ trace = <<>> /\ selfL = NoneV
    /\ probabilities = <<>> /\ guesses = <<>> /\ lastOuts = <<>>

NoRecognize == models = <<>> /\ num_items = 0

InitConstant ==
    /\ strategy = "Constant"
    /\ min_n \in 1..MaxN /\ max_n \in 1..MaxN /\ n_constant \in 1..MaxN
    /\ nseq \in 1..MaxSeq /\ D = 1 /\ others = <<>>
    /\ NoRecognize /\ Fresh

InitBIC ==
    /\ strategy = "BIC"
    /\ min_n \in 1..MaxN /\ max_n \in 1..MaxN /\ n_constant = 3
    /\ nseq \in 1..MaxSeq /\ D \in 1..MaxD /\ others = <<>>
    /\ NoRecognize /\ Fresh

\* ------------------------------------------------------- ModelSelector.base_model
\* base_model(num_states): any exception of fit is caught, None is returned
base_model(num_states, fit) == IF fit = "ok" THEN Model(num_states, 0) ELSE None

\* --------------------------------------------------------- SelectorConstant
ConstantSelect ==
    /\ strategy = "Constant" /\ pc = "start"
    /\ \E fit \in FitOutcomes :
         /\ result' = base_model(n_constant, fit)
         /\ hist' = (n_constant :> [fit |-> fit])
    /\ calls' = {"fit"}
    /\ pc' = "done"
    /\ UNCHANGED <<config, i, hmm_models, best_score, best_i, dicLocals, cvLocals,
                   trace, recVars>>

\* -------------------------------------------------------------- SelectorBIC
\* np.log(len(self.lengths)) in thousandths
LnMilli(n) ==
    CASE n = 1 -> 0 [] n = 2 -> 693 [] n = 3 -> 1099 [] n = 4 -> 1386
      [] n = 5 -> 1609 [] OTHER -> 1792

\* num_of_parameters = i * i + 2 * i * len(self.X[0]) - 1
num_of_parameters(n, d) == n * n + 2 * n * d - 1

\* bic = -2 * logL + num_of_parameters * logN
BICScore(l, n, d, N) ==
    IF l.k = "-inf" THEN PosInf
    ELSE Fin(RAdd(RSub(RInt(0), RAdd(l.v, l.v)),
                  Rat(num_of_parameters(n, d) * LnMilli(N), 1000)))

\* faulty variant: >= in place of >, so a later candidate wins a tie
BICBetterNonStrict(best, bic) == best.k = "None" \/ ~FloatLess(best, bic)

\* if best_score is None or best_score > bic
BICBetter(best, bic) == best.k = "None" \/ FloatLess(bic, best)

BICEnter ==
    /\ strategy = "BIC" /\ pc = "start"
    /\ hmm_models' = Empty /\ best_score' = PosInf /\ best_i' = 0
    /\ i' = min_n /\ pc' = "loop"
    /\ UNCHANGED <<config, dicLocals, cvLocals, result, calls, hist, trace, recVars>>

\* one iteration of `for i in range(min_n_components, max_n_components)`
BICStep ==
    /\ strategy = "BIC" /\ pc = "loop" /\ InRange(i, min_n, max_n)
    /\ \E fit \in FitOutcomes, sc \in ScoreOutcomesInf :
         LET bic == BICScore(sc.logL, i, D, nseq) IN
         \/ /\ fit = "ValueError"                 \* except ValueError: hmm_models[i] = None
            /\ hmm_models' = (i :> None) @@ hmm_models
            /\ hist' = (i :> [fit |-> fit, score |-> "none", logL |-> NoneV, bic |-> NoneV]) @@ hist
            /\ calls' = calls \cup {"fit"}
            /\ pc' = "loop" /\ i' = i + 1
            /\ UNCHANGED <<best_score, best_i>>
         \/ /\ fit = "OtherError"                 \* not caught: leaves select()
            /\ hist' = (i :> [fit |-> fit, score |-> "none", logL |-> NoneV, bic |-> NoneV]) @@ hist
            /\ calls' = calls \cup {"fit"}
            /\ pc' = "raised"
            /\ UNCHANGED <<hmm_models, best_score, best_i, i>>
         \/ /\ fit = "ok" /\ sc.res = "ValueError"
            /\ hmm_models' = (i :> None) @@ hmm_models
            /\ hist' = (i :> [fit |-> fit, score |-> sc.res, logL |-> NoneV, bic |-> NoneV]) @@ hist
            /\ calls' = calls \cup {"fit", "score"}
            /\ pc' = "loop" /\ i' = i + 1
            /\ UNCHANGED <<best_score, best_i>>
         \/ /\ fit = "ok" /\ sc.res = "OtherError"
            /\ hmm_models' = (i :> Model(i, 0)) @@ hmm_models
            /\ hist' = (i :> [fit |-> fit, score |-> sc.res, logL |-> NoneV, bic |-> NoneV]) @@ hist
            /\ calls' = calls \cup {"fit", "score"}
            /\ pc' = "raised"
            /\ UNCHANGED <<best_score, best_i, i>>
         \/ /\ fit = "ok" /\ sc.res = "ok"
            /\ hmm_models' = (i :> Model(i, 0)) @@ hmm_models
            /\ hist' = (i :> [fit |-> fit, score |-> sc.res, logL |-> sc.logL, bic |-> bic]) @@ hist
            /\ calls' = calls \cup {"fit", "score"}
            /\ IF BICBetter(best_score, bic)
                 THEN best_score' = bic /\ best_i' = i
                 ELSE UNCHANGED <<best_score, best_i>>
            /\ pc' = "loop" /\ i' = i + 1
    /\ UNCHANGED <<config, dicLocals, cvLocals, result, trace, recVars>>

\* if best_i is None: return None; return hmm_models[best_i]
SelectReturn ==
    /\ strategy \in {"BIC", "DIC", "CV"} /\ pc = "loop" /\ ~InRange(i, min_n, max_n)
    /\ result' = IF best_i = 0 THEN None ELSE hmm_models[best_i]
    /\ pc' = "done"
    /\ UNCHANGED <<config, i, hmm_models, best_score, best_i, dicLocals, cvLocals,
                   calls, hist, trace, recVars>>

\* -------------------------------------------------------------- SelectorDIC
InitDIC ==
    /\ strategy = "DIC"
    /\ min_n \in 1..MaxN /\ max_n \in 1..MaxN /\ n_constant = 3
    /\ nseq = 1 /\ D = 1
    /\ \E m \in 0..MaxOthers : others \in [1..m -> OtherLengths]
    /\ NoRecognize /\ Fresh

\* faulty variant: the score of the other word taken without the division
DICOtherScoreRaw(l, lengths2) == l

\* logL = model.score(X2, lengths2) / len(lengths2)
DICOtherScore(l, lengths2) == RDivInt(l, Len(lengths2))

\* sum_logL / num_of_logs
DICPenalty(sum, num) == RDivInt(sum, num)

\* dic = logL; if num_of_logs: dic -= sum_logL / num_of_logs
DICValue(l, sum, num) == IF num # 0 THEN RSub(l, DICPenalty(sum, num)) ELSE l

\* if best_score is None or best_score < dic
DICBetter(best, d) == best.k = "None" \/ FloatLess(best, d)

DICEnter ==
    /\ strategy = "DIC" /\ pc = "start"
    /\ hmm_models' = Empty /\ best_score' = NoneV /\ best_i' = 0
    /\ i' = min_n /\ pc' = "loop"
    /\ UNCHANGED <<config, dicLocals, cvLocals, result, calls, hist, trace, recVars>>

\* the head of one iteration: fit the candidate and score it on this word's own data
DICFit ==
    /\ strategy = "DIC" /\ pc = "loop" /\ InRange(i, min_n, max_n)
    /\ \E fit \in FitOutcomes, sc \in ScoreOutcomes :
         \/ /\ fit = "ValueError"
            /\ hmm_models' = (i :> None) @@ hmm_models
            /\ calls' = calls \cup {"fit"}
            /\ pc' = "loop" /\ i' = i + 1
            /\ UNCHANGED <<dicLocals, trace>>
         \/ /\ fit = "OtherError"
            /\ calls' = calls \cup {"fit"}
            /\ pc' = "raised"
            /\ UNCHANGED <<hmm_models, i, dicLocals, trace>>
         \/ /\ fit = "ok" /\ sc.res = "ValueError"
            /\ hmm_models' = (i :> None) @@ hmm_models
            /\ calls' = calls \cup {"fit", "score"}
            /\ pc' = "loop" /\ i' = i + 1
            /\ UNCHANGED <<dicLocals, trace>>
         \/ /\ fit = "ok" /\ sc.res = "OtherError"
            /\ hmm_models' = (i :> Model(i, 0)) @@ hmm_models
            /\ calls' = calls \cup {"fit", "score"}
            /\ pc' = "raised"
            /\ UNCHANGED <<i, dicLocals, trace>>
         \/ /\ fit = "ok" /\ sc.res = "ok"
            /\ hmm_models' = (i :> Model(i, 0)) @@ hmm_models
            /\ calls' = calls \cup {"fit", "score"}
            /\ logL' = sc.logL /\ selfL' = sc.logL
            /\ sum_logL' = RInt(0) /\ num_of_logs' = 0
            /\ k' = 1 /\ trace' = <<>>
            /\ pc' = "others"
            /\ UNCHANGED <<i, dic>>
    /\ UNCHANGED <<config, best_score, best_i, cvLocals, result, hist, recVars>>

\* one iteration of `for word in self.hwords.keys()` for a word != this_word;
\* the bare except swallows every failure of the score call
DICOther ==
    /\ strategy = "DIC" /\ pc = "others" /\ k <= Len(others)
    /\ \E sc \in ScoreOutcomes :
         /\ IF sc.res = "ok"
              THEN LET l == DICOtherScore(sc.logL.v, others[k]) IN
                   /\ logL' = Fin(l)
                   /\ sum_logL' = RAdd(sum_logL, l)
                   /\ num_of_logs' = num_of_logs + 1
              ELSE UNCHANGED <<logL, sum_logL, num_of_logs>>
         /\ trace' = Append(trace, sc)
    /\ k' = k + 1
    /\ UNCHANGED <<config, pc, i, hmm_models, best_score, best_i, dic, selfL, cvLocals,
                   result, calls, hist, recVars>>

\* after the inner loop: dic = logL [- sum_logL / num_of_logs]
DICScore ==
    /\ strategy = "DIC" /\ pc = "others" /\ k > Len(others)
    /\ dic' = Fin(DICValue(logL.v, sum_logL, num_of_logs))
    /\ pc' = "scored"
    /\ UNCHANGED <<config, i, hmm_models, best_score, best_i, logL, sum_logL,
                   num_of_logs, k, selfL, cvLocals, result, calls, hist, trace, recVars>>

\* the comparison that ends the iteration. logL, sum_logL, num_of_logs and dic are
\* dead from here on (each is assigned again before it is read), so they are reset.
DICUpdate ==
    /\ strategy = "DIC" /\ pc = "scored"
    /\ IF DICBetter(best_score, dic)
         THEN best_score' = dic /\ best_i' = i
         ELSE UNCHANGED <<best_score, best_i>>
    /\ i' = i + 1 /\ pc' = "loop"
    /\ logL' = NoneV /\ sum_logL' = RInt(0) /\ num_of_logs' = 0 /\ dic' = NoneV
    /\ k' = 0 /\ selfL' = NoneV /\ trace' = <<>>
    /\ UNCHANGED <<config, hmm_models, cvLocals, result, calls, hist, recVars>>

\* --------------------------------------------------------------- SelectorCV
InitCV ==
    /\ strategy = "CV"
    /\ min_n \in 1..MaxN /\ max_n \in 1..MaxN /\ n_constant = 3
    /\ nseq \in 1..MaxSeq /\ D = 1 /\ others = <<>>
    /\ NoRecognize /\ Fresh

\* faulty variant: the guard lets a single sequence through
CVTooFewOne(n) == n < 1

\* if len(self.lengths) < 2: return None
CVTooFew(n) == n < 2

\* faulty variant: always three folds
NSplitsThree(n) == 3

\* n_splits = min(3, len(self.lengths))
NSplits(n) == IF n < 3 THEN n ELSE 3

\* sklearn's KFold(n_splits=ks).split over ns samples, unshuffled: the first
\* ns % ks folds hold ns \div ks + 1 consecutive samples, the others ns \div ks
KFold(ns, ks) ==
    [f \in 1..ks |->
        LET q == ns \div ks
            r == ns % ks
            first == (f - 1) * q + (IF f - 1 < r THEN f - 1 ELSE r) + 1
            size == q + (IF f <= r THEN 1 ELSE 0)
            test == first..(first + size - 1)
        IN [train |-> (1..ns) \ test, test |-> test]]

\* faulty variant: <= in place of <, so a later fold or candidate wins a tie
CVBetterNonStrict(best, l) == best.k = "None" \/ ~FloatLess(l, best)

\* if best_score is None or best_score < logL  (and the same test on avg_logL)
CVBetter(best, l) == best.k = "None" \/ FloatLess(best, l)

\* avg_logL = sum_logL / num_of_models
CVAverage(sum, num) == RDivInt(sum, num)

RECURSIVE SumOf(_, _)
SumOf(t, S) ==
    IF S = {} THEN RInt(0)
    ELSE LET f == CHOOSE x \in S : TRUE IN RAdd(t[f].logL.v, SumOf(t, S \ {f}))

OkAt(t) == {f \in 1..Len(t) : t[f].res = "ok"}

\* what the trainer answered for one candidate, summed up: how many folds fitted and
\* scored, the sum of their held-out scores, and the earliest fold with the highest one
Summary(t) ==
    [num  |-> Cardinality(OkAt(t)),
     sum  |-> SumOf(t, OkAt(t)),
     best |-> IF OkAt(t) = {} THEN 0
              ELSE CHOOSE f \in OkAt(t) :
                     \A g \in OkAt(t) :
                        /\ ~RLess(t[f].logL.v, t[g].logL.v)
                        /\ g < f => RLess(t[g].logL.v, t[f].logL.v)]

CVEnter ==
    /\ strategy = "CV" /\ pc = "start"
    /\ IF CVTooFew(nseq)
         THEN /\ result' = None /\ pc' = "done"
              /\ UNCHANGED <<i, hmm_models, best_score, best_i, fold>>
         ELSE /\ hmm_models' = Empty /\ best_score' = NoneV /\ best_i' = 0 /\ fold' = 0
              /\ i' = min_n /\ pc' = "loop"
              /\ UNCHANGED result
    /\ UNCHANGED <<config, dicLocals, folds, num_of_models, cv_best_score, best_model,
                   calls, hist, trace, recVars>>

\* the head of one iteration of the candidate loop: reset the locals, split
CVCandidate ==
    /\ strategy = "CV" /\ pc = "loop" /\ InRange(i, min_n, max_n)
    /\ sum_logL' = RInt(0) /\ cv_best_score' = NoneV /\ best_model' = None
    /\ num_of_models' = 0 /\ fold' = 0
    /\ folds' = KFold(nseq, NSplits(nseq))
    /\ calls' = calls \cup {"split"}
    /\ trace' = <<>>
    /\ pc' = "folds"
    /\ UNCHANGED <<config, i, hmm_models, best_score, best_i, logL, num_of_logs, dic, k,
                   selfL, result, hist, recVars>>

\* one iteration of `for cv_train_idx, cv_test_idx in kf.split(sequences)`
CVFold ==
    /\ strategy = "CV" /\ pc = "folds" /\ fold < Len(folds)
    /\ fold' = fold + 1
    /\ \E fit \in FitOutcomes, sc \in ScoreOutcomes :
         \/ /\ fit = "ValueError"                       \* except ValueError: pass
            /\ trace' = Append(trace, [res |-> "fit ValueError", logL |-> NoneV])
            /\ calls' = calls \cup {"fit"}
            /\ UNCHANGED <<sum_logL, num_of_models, cv_best_score, best_model, pc>>
         \/ /\ fit = "OtherError"
            /\ trace' = Append(trace, [res |-> "fit OtherError", logL |-> NoneV])
            /\ calls' = calls \cup {"fit"}
            /\ pc' = "raised"
            /\ UNCHANGED <<sum_logL, num_of_models, cv_best_score, best_model>>
         \/ /\ fit = "ok" /\ sc.res = "ValueError"
            /\ trace' = Append(trace, [res |-> "score ValueError", logL |-> NoneV])
            /\ calls' = calls \cup {"fit", "score"}
            /\ UNCHANGED <<sum_logL, num_of_models, cv_best_score, best_model, pc>>
         \/ /\ fit = "ok" /\ sc.res = "OtherError"
            /\ trace' = Append(trace, [res |-> "score OtherError", logL |-> NoneV])
            /\ calls' = calls \cup {"fit", "score"}
            /\ pc' = "raised"
            /\ UNCHANGED <<sum_logL, num_of_models, cv_best_score, best_model>>
         \/ /\ fit = "ok" /\ sc.res = "ok"
            /\ trace' = Append(trace, [res |-> "ok", logL |-> sc.logL])
            /\ calls' = calls \cup {"fit", "score"}
            /\ sum_logL' = RAdd(sum_logL, sc.logL.v)
            /\ num_of_models' = num_of_models + 1
            /\ IF CVBetter(cv_best_score, sc.logL)
                 THEN cv_best_score' = sc.logL /\ best_model' = Model(i, fold')
                 ELSE UNCHANGED <<cv_best_score, best_model>>
            /\ UNCHANGED pc
    /\ UNCHANGED <<config, i, hmm_models, best_score, best_i, logL, num_of_logs, dic, k,
                   selfL, folds, result, hist, recVars>>

\* after the folds of candidate i: `if num_of_models == 0: continue`, else record the
\* best fold-model and compare the average with best_score_overall (here best_score)
CVCandidateEnd ==
    /\ strategy = "CV" /\ pc = "folds" /\ fold >= Len(folds)
    /\ IF num_of_models = 0
         THEN UNCHANGED <<hmm_models, best_score, best_i>>
         ELSE LET avg_logL == Fin(CVAverage(sum_logL, num_of_models)) IN
              /\ hmm_models' = (i :> best_model) @@ hmm_models
              /\ IF CVBetter(best_score, avg_logL)
                   THEN best_score' = avg_logL /\ best_i' = i
                   ELSE UNCHANGED <<best_score, best_i>>
    /\ hist' = (i :> Summary(trace)) @@ hist
    /\ trace' = <<>>
    /\ i' = i + 1 /\ pc' = "loop"
    /\ UNCHANGED <<config, logL, sum_logL, num_of_logs, dic, k, selfL, cvLocals,
                   result, calls, recVars>>

\* ---------------------------------------------------------------- recognize
\* A word is named by its position in models.items(); a record of probabilities is
\* the dict local_probabilities in insertion order, which is that same order.
InitRecognize ==
    /\ strategy = "Recognize"
    /\ min_n = 2 /\ max_n = 10 /\ n_constant = 3 /\ nseq = 1 /\ D = 1 /\ others = <<>>
    /\ \E m \in 0..MaxWords : models \in [1..m -> {None, Model(n_constant, 0)}]
    /\ num_items \in 0..MaxItems
    /\ Fresh

NotCalled == [res |-> "not called", logL |-> NoneV]

\* faulty variant: logL starts at 0 instead of -math.inf
WordLogLZero(model, sc) == IF model # None /\ sc.res = "ok" THEN sc.logL ELSE Fin(RInt(0))

\* logL = -math.inf; try: if model is not None: logL = model.score(X, lengths)
\* except: logL = -math.inf
WordLogL(model, sc) == IF model # None /\ sc.res = "ok" THEN sc.logL ELSE NegInf

\* faulty variant: the last of the maximal keys
RECURSIVE PyMaxLastFrom(_, _, _)
PyMaxLastFrom(d, j, best) ==
    IF j > Len(d) THEN best
    ELSE PyMaxLastFrom(d, j + 1, IF FloatLess(d[j], d[best]) THEN best ELSE j)

PyMaxLast(d) == PyMaxLastFrom(d, 2, 1)

\* max(local_probabilities, key=local_probabilities.get): the first key, in
\* iteration order, whose value no later key exceeds strictly
RECURSIVE PyMaxFrom(_, _, _)
PyMaxFrom(d, j, best) ==
    IF j > Len(d) THEN best
    ELSE PyMaxFrom(d, j + 1, IF FloatLess(d[best], d[j]) THEN j ELSE best)

PyMax(d) == PyMaxFrom(d, 2, 1)

RecognizeEnter ==
    /\ strategy = "Recognize" /\ pc = "start"
    /\ probabilities' = <<>> /\ guesses' = <<>>
    /\ i' = 0 /\ pc' = "loop"
    /\ UNCHANGED <<config, hmm_models, best_score, best_i, dicLocals, cvLocals, result,
                   calls, hist, trace, models, num_items, lastOuts>>

\* one iteration of `for i in range(0, test_set.num_items)`
RecognizeItem ==
    /\ strategy = "Recognize" /\ pc = "loop" /\ i < num_items
    /\ \E outs \in [1..Len(models) -> ScoreOutcomes] :
         LET local_probabilities ==
                 [w \in 1..Len(models) |-> WordLogL(models[w], outs[w])]
         IN /\ probabilities' = Append(probabilities, local_probabilities)
            /\ lastOuts' = [w \in 1..Len(models) |->
                               IF models[w] = None THEN NotCalled ELSE outs[w]]
            /\ IF Len(models) = 0
                 THEN /\ pc' = "raised"           \* max() of an empty dict: ValueError
                      /\ UNCHANGED <<guesses, i>>
                 ELSE /\ guesses' = Append(guesses, PyMax(local_probabilities))
                      /\ i' = i + 1
                      /\ UNCHANGED pc
    /\ UNCHANGED <<config, hmm_models, best_score, best_i, dicLocals, cvLocals, result,
                   calls, hist, trace, models, num_items>>

\* return probabilities, guesses
RecognizeReturn ==
    /\ strategy = "Recognize" /\ pc = "loop" /\ i >= num_items
    /\ pc' = "done"
    /\ UNCHANGED <<config, i, hmm_models, best_score, best_i, dicLocals, cvLocals, result,
                   calls, hist, trace, recVars>>

\* ------------------------------------------------------------ specifications
Init == InitConstant \/ InitBIC \/ InitDIC \/ InitCV \/ InitRecognize

Next ==
    \/ ConstantSelect
    \/ BICEnter \/ BICStep
    \/ DICEnter \/ DICFit \/ DICOther \/ DICScore \/ DICUpdate
    \/ CVEnter \/ CVCandidate \/ CVFold \/ CVCandidateEnd
    \/ SelectReturn
    \/ RecognizeEnter \/ RecognizeItem \/ RecognizeReturn

Spec == Init /\ [][Next]_vars

NextRecognize == RecognizeEnter \/ RecognizeItem \/ RecognizeReturn
SpecRecognize == InitRecognize /\ [][NextRecognize]_vars

NextSelect ==
    \/ ConstantSelect
    \/ BICEnter \/ BICStep
    \/ DICEnter \/ DICFit \/ DICOther \/ DICScore \/ DICUpdate
    \/ CVEnter \/ CVCandidate \/ CVFold \/ CVCandidateEnd
    \/ SelectReturn
SpecSelect == (InitConstant \/ InitBIC \/ InitDIC \/ InitCV) /\ [][NextSelect]_vars

NextBIC == BICEnter \/ BICStep \/ SelectReturn
SpecBIC == InitBIC /\ [][NextBIC]_vars

NextDIC == DICEnter \/ DICFit \/ DICOther \/ DICScore \/ DICUpdate \/ SelectReturn
SpecDIC == InitDIC /\ [][NextDIC]_vars

NextCV == CVEnter \/ CVCandidate \/ CVFold \/ CVCandidateEnd \/ SelectReturn
SpecCV == InitCV /\ [][NextCV]_vars

\* ==================================================================== claims
Candidates == {j \in 1..MaxN : min_n <= j /\ j < max_n}

\* ---- C1
\* C1 as stated: whatever the strategy, a model returned by select() has a hidden-state
\* count n with min_n_components <= n < max_n_components.
C1_EverySelectorInRange ==
    (strategy # "Recognize" /\ pc = "done" /\ result # None)
        => (min_n <= result.n /\ result.n < max_n)

\* C1 amended: SelectorBIC, SelectorDIC and SelectorCV return None or a model whose count
\* lies in [min_n_components, max_n_components); SelectorConstant returns None or a model
\* with exactly n_constant states, inside the range or not.
C1_SearchSelectorsInRange ==
    (strategy # "Recognize" /\ pc = "done" /\ result # None)
        => IF strategy = "Constant"
             THEN result.n = n_constant
             ELSE min_n <= result.n /\ result.n < max_n

C1_Witness ==
    /\ strategy = "CV" /\ pc = "done" /\ result # None
    /\ result.n > min_n /\ result.n = max_n - 1

\* ---- C2
\* C2: no failure of a fit or score call leaves select() of SelectorBIC, SelectorDIC or
\* SelectorCV: select() never ends by raising.
C2_NoFailureEscapes ==
    strategy \in {"BIC", "DIC", "CV"} => pc # "raised"

\* ---- C3
\* C3: the DIC value of a candidate that fitted and scored is the self-score minus the
\* mean of the other words' contributions, and the self-score itself when no other
\* word scored.
C3_DICMinuendIsSelfScore ==
    (strategy = "DIC" /\ pc = "scored")
        => dic = Fin(IF num_of_logs = 0 THEN selfL.v
                     ELSE RSub(selfL.v, RDivInt(sum_logL, num_of_logs)))

\* ---- C4
FitAndScored(j) == j \in DOMAIN hist /\ hist[j].fit = "ok" /\ hist[j].score = "ok"

\* -2*logL + (n*n + 2*n*D - 1)*ln(number of sequences), +inf for logL = -inf
ClaimedBIC(j) ==
    IF hist[j].logL.k = "-inf" THEN PosInf
    ELSE Fin(Rat(0 - 2000 * hist[j].logL.v.num + (j * j + 2 * j * D - 1) * LnMilli(nseq),
                 1000))

\* the smallest of the candidates of S with the least claimed BIC
MinBIC(S) ==
    CHOOSE j \in S : \A g \in S :
        /\ ~FloatLess(ClaimedBIC(g), ClaimedBIC(j))
        /\ g < j => FloatLess(ClaimedBIC(j), ClaimedBIC(g))

BICVisitsAll ==
    /\ DOMAIN hist = Candidates
    /\ \A j \in Candidates : FitAndScored(j) => hist[j].bic = ClaimedBIC(j)

\* C4 as stated: every candidate of the range is tried, the BIC of each that fits and
\* scores is -2*logL + p*ln(N), the model with the least BIC (smallest n on ties) is
\* returned, and None is returned if and only if every candidate failed to fit.
C4_BICNoneIffNoFit ==
    (strategy = "BIC" /\ pc = "done")
        => LET S == {j \in Candidates : FitAndScored(j)} IN
           /\ BICVisitsAll
           /\ (result = None) <=> (\A j \in Candidates : hist[j].fit # "ok")
           /\ result # None => result = Model(MinBIC(S), 0)

\* C4 amended: as stated, except that None is returned if and only if no candidate both
\* fitted and scored with a BIC below +infinity: a candidate whose score call raises
\* ValueError, or whose log-likelihood is -inf, is passed over like one that did not fit.
C4_BICNoneIffNoneScored ==
    (strategy = "BIC" /\ pc = "done")
        => LET S == {j \in Candidates : FitAndScored(j) /\ hist[j].logL.k = "val"} IN
           /\ BICVisitsAll
           /\ (result = None) <=> (S = {})
           /\ result # None => result = Model(MinBIC(S), 0)

C4_Witness ==
    /\ strategy = "BIC" /\ pc = "done" /\ result # None
    /\ \E j, g \in Candidates :
         /\ j < g /\ FitAndScored(j) /\ FitAndScored(g)
         /\ hist[j].bic = hist[g].bic /\ hist[j].bic.k = "val"
         /\ result.n = j

\* ---- C5
Eligible == {j \in Candidates : j \in DOMAIN hist /\ hist[j].num > 0}

MeanLess(a, b) == RLess(RDivInt(hist[a].sum, hist[a].num), RDivInt(hist[b].sum, hist[b].num))

\* the smallest eligible candidate with the highest mean held-out log-likelihood
BestMean ==
    CHOOSE j \in Eligible : \A g \in Eligible :
        /\ ~MeanLess(j, g)
        /\ g < j => MeanLess(g, j)

\* C5: when SelectorCV.select() returns for a word with at least 2 sequences, the result
\* is None if and only if no candidate had a fold that fitted and scored; otherwise it is
\* the fold-model with the highest held-out score (earliest fold on ties) of the eligible
\* candidate with the highest mean held-out score (smallest n on ties).
C5_CVSelectsBestMean ==
    (strategy = "CV" /\ pc = "done" /\ nseq >= 2)
        => /\ DOMAIN hist = Candidates
           /\ (result = None) <=> (Eligible = {})
           /\ Eligible # {} => result = Model(BestMean, hist[BestMean].best)

C5_Witness ==
    /\ strategy = "CV" /\ pc = "done" /\ nseq >= 2 /\ result # None
    /\ result.fold >= 2
    /\ \E g \in Eligible : g > result.n /\ ~MeanLess(g, result.n) /\ ~MeanLess(result.n, g)

\* ---- C6
\* C6: recognize returns two lists as long as the test set, both grown by one entry per
\* test item in index order; guesses[idx] is the first word, in the iteration order of
\* models, whose value in probabilities[idx] is the maximum of that record.
C6_GuessIsFirstArgmax ==
    (strategy = "Recognize" /\ pc \in {"loop", "done"})
        => /\ Len(probabilities) = i /\ Len(guesses) = i
           /\ pc = "done" => i = num_items
           /\ \A idx \in 1..i :
                LET p == probabilities[idx]
                    b == guesses[idx]
                IN /\ b \in 1..Len(models)
                   /\ \A w \in 1..Len(models) :
                        /\ ~FloatLess(p[b], p[w])
                        /\ w < b => FloatLess(p[w], p[b])

C6_Witness ==
    /\ strategy = "Recognize" /\ pc = "done" /\ num_items >= 2
    /\ \E idx \in 1..num_items : \E w \in 1..Len(models) :
         /\ w > guesses[idx]
         /\ probabilities[idx][w] = probabilities[idx][guesses[idx]]
         /\ probabilities[idx][w].k = "val"
    /\ \E idx \in 1..num_items : guesses[idx] > 1

\* ---- C7
\* C7: every record of probabilities has one entry per word of models; the entry of a
\* word with no model, or whose model's score call failed, is -inf; a word with no model
\* is guessed only if every entry of the record is -inf and it is the first word.
C7_NoModelIsMinusInfinity ==
    strategy = "Recognize"
        => /\ \A idx \in 1..Len(probabilities) :
                /\ DOMAIN probabilities[idx] = DOMAIN models
                /\ \A w \in DOMAIN models :
                       models[w] = None => probabilities[idx][w] = NegInf
           /\ Len(probabilities) > 0 =>
                \A w \in DOMAIN models :
                    lastOuts[w].res \in Errors
                        => probabilities[Len(probabilities)][w] = NegInf
           /\ \A idx \in 1..Len(guesses) :
                models[guesses[idx]] = None
                    => /\ guesses[idx] = 1
                       /\ \A w \in DOMAIN models : probabilities[idx][w] = NegInf

C7_Witness ==
    /\ strategy = "Recognize" /\ Len(guesses) > 0
    /\ models[guesses[Len(guesses)]] = None
    /\ \E w \in DOMAIN models : models[w] # None /\ lastOuts[w].res = "OtherError"

\* ---- C8
\* C8: with fewer than 2 training sequences SelectorCV.select() returns None at once:
\* it enters no loop and calls neither split nor fit nor score.
C8_CVTooFewReturnsNone ==
    (strategy = "CV" /\ nseq < 2)
        => /\ pc \in {"start", "done"}
           /\ calls = {} /\ folds = <<>> /\ hist = Empty
           /\ pc = "done" => result = None

C8_Witness ==
    strategy = "CV" /\ nseq < 2 /\ pc = "done" /\ min_n < max_n

\* ---- C9
\* the total frame length of a word: sum(lengths2)
RECURSIVE TotalFrames(_)
TotalFrames(lengths2) ==
    IF lengths2 = <<>> THEN 0 ELSE Head(lengths2) + TotalFrames(Tail(lengths2))

RECURSIVE SumPerSequence(_)
SumPerSequence(S) ==
    IF S = {} THEN RInt(0)
    ELSE LET w == CHOOSE x \in S : TRUE IN
         RAdd(RDivInt(trace[w].logL.v, Len(others[w])), SumPerSequence(S \ {w}))

RECURSIVE SumPerFrame(_)
SumPerFrame(S) ==
    IF S = {} THEN RInt(0)
    ELSE LET w == CHOOSE x \in S : TRUE IN
         RAdd(RDivInt(trace[w].logL.v, TotalFrames(others[w])), SumPerFrame(S \ {w}))

C10_FoldsPartition ==
    (strategy = "CV" /\ nseq >= 2 /\ folds # <<>>)
        => /\ Len(folds) = (IF nseq < 3 THEN nseq ELSE 3)
           /\ Len(folds) <= nseq
           /\ \A f \in 1..Len(folds) :
                /\ folds[f].test # {} /\ folds[f].train # {}
                /\ folds[f].train = (1..nseq) \ folds[f].test
                /\ \A g \in 1..Len(folds) :
                     f < g => \A a \in folds[f].test, b \in folds[g].test : a < b
           /\ UNION {folds[f].test : f \in 1..Len(folds)} = 1..nseq

C10_Witness ==
    /\ strategy = "CV" /\ pc = "folds" /\ nseq > 3 /\ fold = Len(folds)
    /\ Cardinality(folds[1].test) = 2
====
